---- MODULE Spec2Model ----
(***************************************************************************)
(* Model of VarianceIQ's AnalysisAgent (src/analysis_agent.py): the        *)
(* budget-vs-actual pipeline run() = _validate_and_prepare,                *)
(* _compute_variances, _apply_materiality_and_drivers,                     *)
(* _aggregate_by_department, _to_line_items.                               *)
(*                                                                         *)
(* Numbers.  A float is a record [k, n, d, s]:                             *)
(*   k = "fin"  : the finite value n/d (d > 0, lowest terms)               *)
(*   k = "inf"  : +infinity (n = 1) or -infinity (n = -1)                  *)
(*   k = "nan"  : NaN (also pandas' missing value)                         *)
(*   k = "text" : a string cell s of an object column                      *)
(*   k = "none" : Python's None                                            *)
(* Amounts (budget, actual, variance, the absolute threshold) are whole    *)
(* multiples of the unit 1/UnitInv = 2^-28, so that every sum and          *)
(* difference is exact in binary64 and numpy's absolute tolerance 1e-8     *)
(* lies strictly between 2 and 3 units.  Ratios are exact rationals.       *)
(***************************************************************************)
EXTENDS Integers, Sequences, FiniteSets, TLC

VARIABLES df, cfg, pc, work, aggregate, line_items, metadata, error,
          runs, first,
          kind, summary_dict, config, environ, client, requested, apc,
          result, call, constructed,
          peer,
          session_state, users, history_files, rerun

vars == <<df, cfg, pc, work, aggregate, line_items, metadata, error,
          runs, first,
          kind, summary_dict, config, environ, client, requested, apc,
          result, call, constructed,
          peer,
          session_state, users, history_files, rerun>>

(* what a caller that invokes run() again keeps from the earlier call *)
callerVars == <<runs, first>>

(* the state of the analysis pipeline *)
analysisVars ==
    <<df, cfg, pc, work, aggregate, line_items, metadata, error, runs, first>>

(* an ExplanationAgent or ForecastingAgent (kind), the summary handed to   *)
(* its run, the configuration object and the process environment it is     *)
(* constructed from, whether it holds a client (self.client and the        *)
(* deployment name, which are set together), the use_llm it was            *)
(* constructed with, its caller's position, the returned result, and what  *)
(* became of the external call; constructed lists, for every agent built   *)
(* from the configuration object so far, what its __init__ saw and did     *)
agentVars ==
    <<kind, summary_dict, config, environ, client, requested, apc, result,
      call, constructed>>

(* a second invocation of run, by another caller on another table: its     *)
(* own table, configuration, position and local frames                     *)
peerVars == <<peer>>

(* the dashboard (src/app.py): the Streamlit session state, the users      *)
(* file, the per-user history files, and whether a run of the script      *)
(* ended in st.rerun() and the run it asked for has not happened yet       *)
appVars == <<session_state, users, history_files, rerun>>

-----------------------------------------------------------------------------
(* Bounds and scales *)

MaxRows == 2

MaxReruns == 1

UnitInv == 2^28

AtolInv == 100000000

-----------------------------------------------------------------------------
(* Values *)

Float(n, d) == [k |-> "fin", n |-> n, d |-> d, s |-> ""]

Num(n) == Float(n, 1)

NaN == [k |-> "nan", n |-> 0, d |-> 0, s |-> ""]

Inf(sg) == [k |-> "inf", n |-> sg, d |-> 0, s |-> ""]

Text(str) == [k |-> "text", n |-> 0, d |-> 0, s |-> str]

None == [k |-> "none", n |-> 0, d |-> 0, s |-> ""]

Abs(x) == IF x < 0 THEN -x ELSE x

Sign(x) == IF x < 0 THEN -1 ELSE IF x > 0 THEN 1 ELSE 0

RECURSIVE GCD(_, _)
GCD(a, b) == IF b = 0 THEN a ELSE GCD(b, a % b)

FSub_Swapped(x, y) ==
    IF x.k = "fin" /\ y.k = "fin" THEN Num(y.n - x.n) ELSE NaN

(* IEEE-754 subtraction of two amounts (whole numbers of units). *)
FSub(x, y) ==
    IF x.k = "fin" /\ y.k = "fin" THEN Num(x.n - y.n) ELSE NaN

(* IEEE-754 division x / y with numpy's divide/invalid warnings silenced:  *)
(* v/0 is +inf or -inf by the sign of v, and 0/0 is NaN.                   *)
FDiv(x, y) ==
    IF x.k # "fin" \/ y.k # "fin" THEN NaN
    ELSE IF y.n = 0
         THEN (IF x.n = 0 THEN NaN ELSE Inf(Sign(x.n)))
         ELSE LET g == GCD(Abs(x.n), Abs(y.n))
              IN  Float((Sign(y.n) * x.n) \div g, Abs(y.n) \div g)

(* Series.abs() >= thr, elementwise, thr = <<p, q>> meaning p/q.           *)
(* A comparison with NaN is False; |inf| exceeds every threshold.          *)
FAbsGe(x, thr) ==
    CASE x.k = "fin" -> Abs(x.n) * thr[2] >= thr[1] * x.d
      [] x.k = "inf" -> TRUE
      [] OTHER       -> FALSE

(* pd.isna / pd.notna on a scalar *)
IsNA(x) == x.k \in {"nan", "none"}

(* np.isclose(v, 0.0): |v - 0| <= atol + rtol * |0| with atol = 1e-8,      *)
(* for v a whole number of units: v / UnitInv <= 1 / AtolInv.              *)
IsCloseZero(v) == Abs(v) <= UnitInv \div AtolInv

(* str(x) of a cell *)
Str(x) == IF x.k = "text" THEN x.s ELSE IF x.k = "nan" THEN "nan" ELSE "None"

(* float(x) of a finite amount: the number of units *)
ToFloat(x) == x.n

-----------------------------------------------------------------------------
(* Configuration (AnalysisConfig): the default column names; the absolute  *)
(* threshold in units, the percentage threshold as a fraction <<p, q>>.    *)

department_col == "department"

account_col == "account"

budget_col == "budget"

actual_col == "actual"

period_col == "period"

RequiredCols == {department_col, account_col, budget_col, actual_col}

AllCols == RequiredCols \cup {period_col}

AbsThresholds == {4, 8}

PctThresholds == {<<1, 1>>, <<8, 1>>}

Configs ==
    [materiality_threshold_abs : AbsThresholds,
     materiality_threshold_pct : PctThresholds]

-----------------------------------------------------------------------------
(* Input tables: the caller's DataFrame.  A table has a set of columns and  *)
(* at most MaxRows rows; a cell is a number, a string or a missing value.  *)
(* The budget cells hold a numeric string ("4") and an unparseable one,    *)
(* the actual cells a missing value, the group cells a missing group.      *)

DeptCells == {Text("A"), Text("B"), NaN}

AccountCells == {Text("x")}

BudgetCells == {Num(-1), Num(0), Num(1), Text("4"), Text("n/a")}

ActualCells == {Num(0), Num(3), NaN}

PeriodCells == {Text("P1")}

FullRows ==
    [department : DeptCells, account : AccountCells, budget : BudgetCells,
     actual : ActualCells, period : PeriodCells]

RowsOver(cols) == {[c \in cols |-> r[c]] : r \in FullRows}

(* tables with every column carry up to MaxRows rows; tables lacking a      *)
(* column, whose rows play no part in what run does about the column, one   *)
(* row fewer                                                                *)
RowLimit(cols) == IF cols = AllCols THEN MaxRows ELSE MaxRows - 1

Tables ==
    UNION {UNION {[columns : {cols}, rows : [1..n -> RowsOver(cols)]]
                  : n \in 0..RowLimit(cols)}
           : cols \in SUBSET AllCols}

-----------------------------------------------------------------------------
(* Data-frame helpers *)

(* df[col] = value, row by row: add or overwrite columns *)
Assign(r, ext) ==
    [c \in DOMAIN r \cup DOMAIN ext |-> IF c \in DOMAIN ext THEN ext[c] ELSE r[c]]

(* pd.to_numeric(errors="coerce") on one cell *)
ToNumeric(x) ==
    CASE x.k = "fin"                -> x
      [] x.k = "text" /\ x.s = "4"  -> Num(4)
      [] OTHER                      -> NaN

RECURSIVE SumCol(_, _)
SumCol(rows, col) ==
    IF rows = <<>> THEN 0
    ELSE rows[1][col].n + SumCol(Tail(rows), col)

-----------------------------------------------------------------------------
(* State *)

NoFrame == [columns |-> {}, rows |-> <<>>]

NoMetadata ==
    [description |-> "", row_count |-> 0,
     materiality_abs |-> 0, materiality_pct |-> <<0, 1>>]

NoSummary == [metadata |-> NoMetadata, aggregate |-> <<>>, line_items |-> <<>>]

NoResult == [mode |-> "", narrative |-> <<>>, points |-> <<>>]

(* no explanation or forecasting agent takes part in an analysis run *)
AgentsIdle ==
    /\ kind = "none"
    /\ summary_dict = NoSummary
    /\ config = [use_llm |-> FALSE, max_focus_items |-> 0]
    /\ environ = {}
    /\ client = FALSE
    /\ requested = FALSE
    /\ apc = "idle"
    /\ result = NoResult
    /\ call = "none"
    /\ constructed = <<>>

NoPeer ==
    [df |-> NoFrame, cfg |-> [materiality_threshold_abs |-> 0,
                              materiality_threshold_pct |-> <<0, 1>>],
     pc |-> "idle", work |-> NoFrame, aggregate |-> <<>>, line_items |-> <<>>,
     metadata |-> NoMetadata, error |-> {}]

(* no second invocation takes part *)
PeerIdle == peer = NoPeer

NoSession ==
    [authenticated |-> FALSE, user_email |-> "", history |-> <<>>,
     last_explanations |-> ""]

(* no dashboard session takes part *)
AppIdle ==
    /\ session_state = NoSession
    /\ users = {}
    /\ history_files = {}
    /\ rerun = FALSE

Init ==
    /\ df \in Tables
    /\ cfg \in Configs
    /\ pc = "start"
    /\ work = NoFrame
    /\ aggregate = <<>>
    /\ line_items = <<>>
    /\ metadata = NoMetadata
    /\ error = {}
    /\ runs = 0
    /\ first = NoSummary
    /\ AgentsIdle
    /\ PeerIdle
    /\ AppIdle

-----------------------------------------------------------------------------
(* AnalysisAgent._validate_and_prepare *)

Coerce(r) ==
    Assign(r, [budget |-> ToNumeric(r[budget_col]),
               actual |-> ToNumeric(r[actual_col])])

DropNA_BudgetOnly(rows) ==
    SelectSeq(rows, LAMBDA r : ~IsNA(r[budget_col]))

DropNA(rows) ==
    SelectSeq(rows, LAMBDA r : ~IsNA(r[budget_col]) /\ ~IsNA(r[actual_col]))

MissingCols_PeriodRequired(columns) == AllCols \ columns

MissingCols(columns) == RequiredCols \ columns

CallerTableAfter_NoCopy(table, written) == [table EXCEPT !.rows = written]

(* df = df.copy(): the column assignments that follow land on the copy,    *)
(* the caller's table keeps its cells.                                     *)
CallerTableAfter(table, written) == table

EntryFrame_KeptOnSelf(table, kept) ==
    IF table.columns \subseteq kept.columns
    THEN [columns |-> table.columns,
          rows |-> [i \in DOMAIN kept.rows |->
                        [c \in table.columns |-> kept.rows[i][c]]] \o table.rows]
    ELSE table

(* df = df.copy(): the frame a call works on is made from its argument     *)
(* alone.  run assigns no attribute of self, so the frame kept of an       *)
(* earlier call (the working frame it ended with) is not part of it.       *)
EntryFrame(table, kept) == table

ValidateAndPrepare ==
    /\ pc = "start"
    /\ LET missing == MissingCols(df.columns)
           entry   == EntryFrame(df, work)
       IN  IF missing # {}
           THEN /\ error' = missing
                /\ pc' = "raised"
                /\ work' = work
                /\ df' = df
           ELSE LET coerced == [i \in DOMAIN entry.rows |-> Coerce(entry.rows[i])]
                IN  /\ work' = [columns |-> entry.columns, rows |-> DropNA(coerced)]
                    /\ df' = CallerTableAfter(df, coerced)
                    /\ pc' = "prepared"
                    /\ error' = error
    /\ UNCHANGED <<cfg, aggregate, line_items, metadata>>
    /\ UNCHANGED <<callerVars, agentVars, peerVars, appVars>>

(* AnalysisAgent._compute_variances *)

WithVariance(r) ==
    LET variance == FSub(r[actual_col], r[budget_col])
    IN  Assign(r, [variance |-> variance,
                   variance_pct |-> FDiv(variance, r[budget_col])])

ComputeVariances ==
    /\ pc = "prepared"
    /\ work' = [columns |-> work.columns \cup {"variance", "variance_pct"},
                rows |-> [i \in DOMAIN work.rows |-> WithVariance(work.rows[i])]]
    /\ pc' = "variances"
    /\ UNCHANGED <<df, cfg, aggregate, line_items, metadata, error>>
    /\ UNCHANGED <<callerVars, agentVars, peerVars, appVars>>

(* AnalysisAgent._apply_materiality_and_drivers *)

IsMaterialAbs_Strict(r, c) == Abs(r.variance.n) > c.materiality_threshold_abs

IsMaterialAbs(r, c) == Abs(r.variance.n) >= c.materiality_threshold_abs

IsMaterialPct_Reversed(r, c) ==
    /\ r.variance_pct.k = "fin"
    /\ Abs(r.variance_pct.n) * c.materiality_threshold_pct[2]
           <= c.materiality_threshold_pct[1] * r.variance_pct.d

IsMaterialPct(r, c) == FAbsGe(r.variance_pct, c.materiality_threshold_pct)

direction_ExactZero(v) ==
    IF v = 0 THEN "neutral"
    ELSE IF v > 0 THEN "unfavorable" ELSE "favorable"

direction(v) ==
    IF IsCloseZero(v) THEN "neutral"
    ELSE IF v > 0 THEN "unfavorable" ELSE "favorable"

Drivers_Swapped(is_material, dir) ==
    LET row_drivers ==
            IF is_material
            THEN (IF dir = "unfavorable" THEN <<"underspend">>
                  ELSE IF dir = "favorable" THEN <<"overspend">>
                  ELSE <<>>)
            ELSE <<>>
    IN  IF row_drivers = <<>> THEN <<"baseline">> ELSE row_drivers

Drivers_MaterialNeverBaseline(is_material, dir) ==
    IF is_material
    THEN (IF dir = "favorable" THEN <<"underspend">> ELSE <<"overspend">>)
    ELSE <<"baseline">>

Drivers(is_material, dir) ==
    LET row_drivers ==
            IF is_material
            THEN (IF dir = "unfavorable" THEN <<"overspend">>
                  ELSE IF dir = "favorable" THEN <<"underspend">>
                  ELSE <<>>)
            ELSE <<>>
    IN  IF row_drivers = <<>> THEN <<"baseline">> ELSE row_drivers

Tagged(r, c) ==
    LET is_material_abs == IsMaterialAbs(r, c)
        is_material_pct == IsMaterialPct(r, c)
        is_material == is_material_abs \/ is_material_pct
        dir == direction(r.variance.n)
    IN  Assign(r, [is_material_abs |-> is_material_abs,
                   is_material_pct |-> is_material_pct,
                   is_material |-> is_material,
                   direction |-> dir,
                   drivers |-> Drivers(is_material, dir)])

ApplyMaterialityAndDrivers ==
    /\ pc = "variances"
    /\ work' = [columns |-> work.columns \cup
                            {"is_material_abs", "is_material_pct",
                             "is_material", "direction", "drivers"},
                rows |-> [i \in DOMAIN work.rows |-> Tagged(work.rows[i], cfg)]]
    /\ pc' = "tagged"
    /\ UNCHANGED <<df, cfg, aggregate, line_items, metadata, error>>
    /\ UNCHANGED <<callerVars, agentVars, peerVars, appVars>>

(* AnalysisAgent._aggregate_by_department *)

(* The lexicographic order of the group names of the model *)
KeyOrder == <<Text("A"), Text("B")>>

GroupKeys_FirstSeen(rows) ==
    LET firsts ==
            SelectSeq([i \in DOMAIN rows |-> i],
                      LAMBDA i :
                          /\ \E k \in DOMAIN KeyOrder :
                                 rows[i][department_col] = KeyOrder[k]
                          /\ \A j \in 1..(i - 1) :
                                 rows[j][department_col] # rows[i][department_col])
    IN  [k \in DOMAIN firsts |-> rows[firsts[k]][department_col]]

(* df.groupby(department_col): one group per distinct key, keys sorted,    *)
(* rows whose key is missing (NaN) left out (pandas' dropna=True default). *)
GroupKeys(rows) ==
    SelectSeq(KeyOrder,
              LAMBDA key : \E i \in DOMAIN rows : rows[i][department_col] = key)

GroupRows_All(rows, key) == rows

GroupRows(rows, key) ==
    SelectSeq(rows, LAMBDA r : r[department_col] = key)

DivisionGuard_Always(budget_total) == TRUE

(* the condition under which variance_total / budget_total is evaluated *)
DivisionGuard(budget_total) == ~IsCloseZero(budget_total)

(* Python's float division raises ZeroDivisionError on a zero divisor *)
ZeroDivision(rows, key) ==
    LET budget_total == SumCol(GroupRows(rows, key), budget_col)
    IN  DivisionGuard(budget_total) /\ budget_total = 0

AggregateOf_ExactZeroGuard(rows, key) ==
    LET members == GroupRows(rows, key)
        budget_total == SumCol(members, budget_col)
        variance_total == SumCol(members, "variance")
    IN  [department |-> Str(key),
         budget_total |-> budget_total,
         actual_total |-> SumCol(members, actual_col),
         variance_total |-> variance_total,
         variance_pct_total |->
             IF budget_total # 0
             THEN FDiv(Num(variance_total), Num(budget_total))
             ELSE None]

AggregateOf(rows, key) ==
    LET members == GroupRows(rows, key)
        budget_total == SumCol(members, budget_col)
        variance_total == SumCol(members, "variance")
    IN  [department |-> Str(key),
         budget_total |-> budget_total,
         actual_total |-> SumCol(members, actual_col),
         variance_total |-> variance_total,
         variance_pct_total |->
             IF DivisionGuard(budget_total)
             THEN FDiv(Num(variance_total), Num(budget_total))
             ELSE None]

AggregateByDepartment ==
    /\ pc = "tagged"
    /\ LET keys == GroupKeys(work.rows)
       IN  IF \E j \in DOMAIN keys : ZeroDivision(work.rows, keys[j])
           THEN /\ error' = {"ZeroDivisionError"}
                /\ pc' = "raised"
                /\ aggregate' = aggregate
           ELSE /\ aggregate' = [j \in DOMAIN keys |-> AggregateOf(work.rows, keys[j])]
                /\ pc' = "aggregated"
                /\ error' = error
    /\ UNCHANGED <<df, cfg, work, line_items, metadata>>
    /\ UNCHANGED <<callerVars, agentVars, peerVars, appVars>>

(* AnalysisAgent._to_line_items *)

LineItem(r, columns) ==
    [department |-> Str(r[department_col]),
     account |-> Str(r[account_col]),
     period |-> IF period_col \in columns THEN Text(Str(r[period_col])) ELSE None,
     budget |-> ToFloat(r[budget_col]),
     actual |-> ToFloat(r[actual_col]),
     variance |-> ToFloat(r.variance),
     variance_pct |-> IF ~IsNA(r.variance_pct) THEN r.variance_pct ELSE None,
     direction |-> r.direction,
     material |-> r.is_material,
     drivers |-> r.drivers]

ToLineItems ==
    /\ pc = "aggregated"
    /\ line_items' = [i \in DOMAIN work.rows |-> LineItem(work.rows[i], work.columns)]
    /\ pc' = "lines"
    /\ UNCHANGED <<df, cfg, work, aggregate, metadata, error>>
    /\ UNCHANGED <<callerVars, agentVars, peerVars, appVars>>

(* AnalysisAgent.run: metadata and the returned AnalysisSummary *)

Return_InputRowCount ==
    /\ pc = "lines"
    /\ metadata' = [description |-> "Budget vs Actual variance analysis",
                    row_count |-> Len(df.rows),
                    materiality_abs |-> cfg.materiality_threshold_abs,
                    materiality_pct |-> cfg.materiality_threshold_pct]
    /\ pc' = "done"
    /\ UNCHANGED <<df, cfg, work, aggregate, line_items, error>>
    /\ UNCHANGED <<callerVars, agentVars, peerVars, appVars>>

Return ==
    /\ pc = "lines"
    /\ metadata' = [description |-> "Budget vs Actual variance analysis",
                    row_count |-> Len(work.rows),
                    materiality_abs |-> cfg.materiality_threshold_abs,
                    materiality_pct |-> cfg.materiality_threshold_pct]
    /\ pc' = "done"
    /\ UNCHANGED <<df, cfg, work, aggregate, line_items, error>>
    /\ UNCHANGED <<callerVars, agentVars, peerVars, appVars>>

Next ==
    \/ ValidateAndPrepare
    \/ ComputeVariances
    \/ ApplyMaterialityAndDrivers
    \/ AggregateByDepartment
    \/ ToLineItems
    \/ Return

Spec == Init /\ [][Next]_vars

-----------------------------------------------------------------------------
(* A caller that calls run() a second time on the same table with the same *)
(* agent: the table and the configuration are whatever the first call      *)
(* left, and so is the working frame the first call ended with, which the  *)
(* second call gets to see only through EntryFrame; what the first call    *)
(* returned is with the caller.                                            *)

Summary == [metadata |-> metadata, aggregate |-> aggregate, line_items |-> line_items]

RunAgain ==
    /\ pc = "done"
    /\ runs < MaxReruns
    /\ runs' = runs + 1
    /\ first' = IF runs = 0 THEN Summary ELSE first
    /\ pc' = "start"
    /\ aggregate' = <<>>
    /\ line_items' = <<>>
    /\ metadata' = NoMetadata
    /\ UNCHANGED <<df, cfg, work, error>>
    /\ UNCHANGED <<agentVars, peerVars, appVars>>

TablesOver(cols) ==
    UNION {[columns : {cols}, rows : [1..n -> RowsOver(cols)]] : n \in 0..MaxRows}

(* the tables run twice: every kind of budget cell, the actual a number or *)
(* missing                                                                 *)
InitTwice ==
    /\ df \in {t \in TablesOver(AllCols) :
                  \A i \in DOMAIN t.rows : t.rows[i][actual_col] # Num(0)}
    /\ cfg \in Configs
    /\ pc = "start"
    /\ work = NoFrame
    /\ aggregate = <<>>
    /\ line_items = <<>>
    /\ metadata = NoMetadata
    /\ error = {}
    /\ runs = 0
    /\ first = NoSummary
    /\ AgentsIdle
    /\ PeerIdle
    /\ AppIdle

NextTwice ==
    \/ ValidateAndPrepare
    \/ ComputeVariances
    \/ ApplyMaterialityAndDrivers
    \/ AggregateByDepartment
    \/ ToLineItems
    \/ Return
    \/ RunAgain

SpecTwice == InitTwice /\ [][NextTwice]_vars

-----------------------------------------------------------------------------
(* The end-to-end example of the specification, with every amount divided  *)
(* by 10 (1000 -> 100, 1200 -> 120, ..., threshold 100 -> 10): the         *)
(* pipeline is insensitive to a common factor as long as every non-zero    *)
(* variance stays outside the tolerance, which it does.  The tables are    *)
(* the sequences of at most three of the example's rows.                   *)

ExampleRows ==
    << [department |-> Text("A"), account |-> Text("x1"),
        budget |-> Num(100), actual |-> Num(120), period |-> Text("P1")],
       [department |-> Text("A"), account |-> Text("x2"),
        budget |-> Num(50), actual |-> Num(40), period |-> Text("P1")],
       [department |-> Text("B"), account |-> Text("y1"),
        budget |-> Num(0), actual |-> Num(5), period |-> Text("P1")] >>

ExampleConfig ==
    [materiality_threshold_abs |-> 10, materiality_threshold_pct |-> <<1, 10>>]

ExampleTables ==
    UNION {UNION {[columns : {cols},
                   rows : [1..n -> {[c \in cols |-> ExampleRows[i][c]]
                                    : i \in DOMAIN ExampleRows}]]
                  : n \in 0..Len(ExampleRows)}
           : cols \in {RequiredCols, AllCols}}

InitExample ==
    /\ df \in ExampleTables
    /\ cfg = ExampleConfig
    /\ pc = "start"
    /\ work = NoFrame
    /\ aggregate = <<>>
    /\ line_items = <<>>
    /\ metadata = NoMetadata
    /\ error = {}
    /\ runs = 0
    /\ first = NoSummary
    /\ AgentsIdle
    /\ PeerIdle
    /\ AppIdle

SpecExample == InitExample /\ [][Next]_vars

-----------------------------------------------------------------------------
(* run with an absolute materiality threshold of 0, under which every row  *)
(* is material                                                             *)

InitZeroAbs ==
    /\ df \in TablesOver(AllCols)
    /\ cfg \in [materiality_threshold_abs : {0},
                 materiality_threshold_pct : PctThresholds]
    /\ pc = "start"
    /\ work = NoFrame
    /\ aggregate = <<>>
    /\ line_items = <<>>
    /\ metadata = NoMetadata
    /\ error = {}
    /\ runs = 0
    /\ first = NoSummary
    /\ AgentsIdle
    /\ PeerIdle
    /\ AppIdle

SpecZeroAbs == InitZeroAbs /\ [][Next]_vars

-----------------------------------------------------------------------------
(* A caller that runs the analysis again on the same rows in another       *)
(* order, with the same agent.                                             *)

Permuted(rows, p) == [i \in DOMAIN rows |-> rows[p[i]]]

RunPermuted ==
    /\ pc = "done"
    /\ runs < MaxReruns
    /\ \E p \in Permutations(DOMAIN df.rows) :
          df' = [df EXCEPT !.rows = Permuted(df.rows, p)]
    /\ runs' = runs + 1
    /\ first' = IF runs = 0 THEN Summary ELSE first
    /\ pc' = "start"
    /\ aggregate' = <<>>
    /\ line_items' = <<>>
    /\ metadata' = NoMetadata
    /\ UNCHANGED <<cfg, work, error>>
    /\ UNCHANGED <<agentVars, peerVars, appVars>>

PermutedRows ==
    [department : DeptCells, account : AccountCells,
     budget : {Num(-1), Num(1), Text("n/a")}, actual : {Num(3)},
     period : PeriodCells]

PermutedTables ==
    UNION {[columns : {AllCols}, rows : [1..n -> PermutedRows]] : n \in 0..MaxRows}

InitPermuted ==
    /\ df \in PermutedTables
    /\ cfg \in Configs
    /\ pc = "start"
    /\ work = NoFrame
    /\ aggregate = <<>>
    /\ line_items = <<>>
    /\ metadata = NoMetadata
    /\ error = {}
    /\ runs = 0
    /\ first = NoSummary
    /\ AgentsIdle
    /\ PeerIdle
    /\ AppIdle

NextPermuted ==
    \/ ValidateAndPrepare
    \/ ComputeVariances
    \/ ApplyMaterialityAndDrivers
    \/ AggregateByDepartment
    \/ ToLineItems
    \/ Return
    \/ RunPermuted

SpecPermuted == InitPermuted /\ [][NextPermuted]_vars

-----------------------------------------------------------------------------
(* Two invocations of run at once: the one of the variables above and a    *)
(* second one, by another caller on another table, whose locals are the    *)
(* fields of peer.  Both go through the same agent (self.cfg is shared     *)
(* and only read).                                                         *)

LocalFrame_Shared(own, other) == IF other.columns = own.columns THEN other ELSE own

(* the frame a step works on is a local of its own call *)
LocalFrame(own, other) == own

(* one step of run on the locals inv of a call, reading the frame w *)
StepOf(inv, w) ==
    CASE inv.pc = "start" ->
             LET missing == MissingCols(inv.df.columns)
                 entry   == EntryFrame(inv.df, inv.work)
                 coerced == [i \in DOMAIN entry.rows |-> Coerce(entry.rows[i])]
             IN  IF missing # {}
                 THEN [inv EXCEPT !.error = missing, !.pc = "raised"]
                 ELSE [inv EXCEPT
                          !.work = [columns |-> entry.columns,
                                    rows |-> DropNA(coerced)],
                          !.df = CallerTableAfter(inv.df, coerced),
                          !.pc = "prepared"]
      [] inv.pc = "prepared" ->
             [inv EXCEPT
                 !.work = [columns |-> w.columns \cup {"variance", "variance_pct"},
                           rows |-> [i \in DOMAIN w.rows |-> WithVariance(w.rows[i])]],
                 !.pc = "variances"]
      [] inv.pc = "variances" ->
             [inv EXCEPT
                 !.work = [columns |-> w.columns \cup
                                       {"is_material_abs", "is_material_pct",
                                        "is_material", "direction", "drivers"},
                           rows |-> [i \in DOMAIN w.rows |-> Tagged(w.rows[i], inv.cfg)]],
                 !.pc = "tagged"]
      [] inv.pc = "tagged" ->
             LET keys == GroupKeys(w.rows)
             IN  IF \E j \in DOMAIN keys : ZeroDivision(w.rows, keys[j])
                 THEN [inv EXCEPT !.error = {"ZeroDivisionError"}, !.pc = "raised"]
                 ELSE [inv EXCEPT
                          !.aggregate = [j \in DOMAIN keys |-> AggregateOf(w.rows, keys[j])],
                          !.pc = "aggregated"]
      [] inv.pc = "aggregated" ->
             [inv EXCEPT
                 !.line_items = [i \in DOMAIN w.rows |-> LineItem(w.rows[i], w.columns)],
                 !.pc = "lines"]
      [] inv.pc = "lines" ->
             [inv EXCEPT
                 !.metadata = [description |-> "Budget vs Actual variance analysis",
                               row_count |-> Len(w.rows),
                               materiality_abs |-> inv.cfg.materiality_threshold_abs,
                               materiality_pct |-> inv.cfg.materiality_threshold_pct],
                 !.pc = "done"]
      [] OTHER -> inv

(* the locals of a call of run(table) on an agent configured with c *)
StartOf(table, c) ==
    [df |-> table, cfg |-> c, pc |-> "start", work |-> NoFrame,
     aggregate |-> <<>>, line_items |-> <<>>, metadata |-> NoMetadata,
     error |-> {}]

RECURSIVE Finish(_)
Finish(inv) ==
    IF inv.pc \in {"done", "raised"} THEN inv ELSE Finish(StepOf(inv, inv.work))

(* run(table) with nothing else going on *)
RunAlone(table, c) == Finish(StartOf(table, c))

SummaryOf(inv) ==
    [metadata |-> inv.metadata, aggregate |-> inv.aggregate,
     line_items |-> inv.line_items]

(* the second call takes a step *)
PeerStep ==
    /\ peer.pc \notin {"idle", "done", "raised"}
    /\ peer' = StepOf(peer, LocalFrame(peer.work, work))
    /\ UNCHANGED <<analysisVars, agentVars, appVars>>

(* rows of the two callers' tables *)
ConcurrentRows ==
    {r \in FullRows : /\ r.department \in {Text("A"), Text("B")}
                      /\ r.budget \in {Num(0), Text("n/a")}
                      /\ r.actual = Num(3)}

(* small tables, and one that lacks every column *)
ConcurrentTables ==
    UNION {[columns : {AllCols}, rows : [1..n -> ConcurrentRows]] : n \in 0..MaxRows}
    \cup {NoFrame}

InitConcurrent ==
    /\ df \in ConcurrentTables
    /\ cfg \in Configs
    /\ pc = "start"
    /\ work = NoFrame
    /\ aggregate = <<>>
    /\ line_items = <<>>
    /\ metadata = NoMetadata
    /\ error = {}
    /\ runs = 0
    /\ first = NoSummary
    /\ peer \in {StartOf(t, cfg) : t \in ConcurrentTables \ {df}}
    /\ AgentsIdle
    /\ AppIdle

NextConcurrent ==
    \/ ValidateAndPrepare
    \/ ComputeVariances
    \/ ApplyMaterialityAndDrivers
    \/ AggregateByDepartment
    \/ ToLineItems
    \/ Return
    \/ PeerStep

SpecConcurrent == InitConcurrent /\ [][NextConcurrent]_vars

-----------------------------------------------------------------------------
(* AnalysisSummary.to_dict: the summary as nested maps, lists and scalars, *)
(* which is what the dashboard hands to the agents                         *)

AggregateDict(a) ==
    [department |-> a.department,
     budget_total |-> a.budget_total,
     actual_total |-> a.actual_total,
     variance_total |-> a.variance_total,
     variance_pct_total |-> a.variance_pct_total]

LineItemDict_PctOrZero(li) ==
    [department |-> li.department,
     account |-> li.account,
     period |-> li.period,
     budget |-> li.budget,
     actual |-> li.actual,
     variance |-> li.variance,
     variance_pct |-> IF li.variance_pct = None THEN Num(0) ELSE li.variance_pct,
     direction |-> li.direction,
     material |-> li.material,
     drivers |-> li.drivers]

LineItemDict(li) ==
    [department |-> li.department,
     account |-> li.account,
     period |-> li.period,
     budget |-> li.budget,
     actual |-> li.actual,
     variance |-> li.variance,
     variance_pct |-> li.variance_pct,
     direction |-> li.direction,
     material |-> li.material,
     drivers |-> li.drivers]

to_dict(s) ==
    [metadata |-> s.metadata,
     aggregate |-> [j \in DOMAIN s.aggregate |-> AggregateDict(s.aggregate[j])],
     line_items |-> [i \in DOMAIN s.line_items |-> LineItemDict(s.line_items[i])]]

(* summary_dict = summary.to_dict() on the summary run returned *)
ToDict ==
    /\ pc = "done"
    /\ summary_dict' = to_dict(Summary)
    /\ pc' = "serialized"
    /\ UNCHANGED <<df, cfg, work, aggregate, line_items, metadata, error>>
    /\ UNCHANGED <<kind, config, environ, client, requested, apc, result, call,
                   constructed>>
    /\ UNCHANGED <<callerVars, peerVars, appVars>>

(* tables that run accepts: with or without the optional period column *)
AcceptedTables ==
    UNION {UNION {[columns : {cols}, rows : [1..n -> RowsOver(cols)]]
                  : n \in 0..RowLimit(cols)}
           : cols \in {RequiredCols, AllCols}}

InitDict ==
    /\ df \in AcceptedTables
    /\ cfg \in Configs
    /\ pc = "start"
    /\ work = NoFrame
    /\ aggregate = <<>>
    /\ line_items = <<>>
    /\ metadata = NoMetadata
    /\ error = {}
    /\ runs = 0
    /\ first = NoSummary
    /\ AgentsIdle
    /\ PeerIdle
    /\ AppIdle

NextDict ==
    \/ ValidateAndPrepare
    \/ ComputeVariances
    \/ ApplyMaterialityAndDrivers
    \/ AggregateByDepartment
    \/ ToLineItems
    \/ Return
    \/ ToDict

SpecDict == InitDict /\ [][NextDict]_vars

-----------------------------------------------------------------------------
(* ExplanationAgent (src/explanation_agent.py) and ForecastingAgent        *)
(* (src/forecasting_agent.py).  Amounts in a summary handed to an agent    *)
(* are whole euros.                                                        *)

MaxAggs == 2

MaxItems == 1

MaxFocus == 2

MaxLines == 2

Min(a, b) == IF a <= b THEN a ELSE b

Max(a, b) == IF a >= b THEN a ELSE b

(* seq[:k], Python's slice: a negative k counts from the end *)
Slice(seq, k) ==
    IF k >= 0 THEN SubSeq(seq, 1, Min(k, Len(seq)))
    ELSE SubSeq(seq, 1, Max(Len(seq) + k, 0))

(* format(n/d, ",.0f") for d > 0, in units of 1: the nearest integer, a    *)
(* tie going to the even one                                               *)
RoundHalfEven(n, d) ==
    LET q == n \div d
        r == n % d
    IN  IF 2 * r < d THEN q
        ELSE IF 2 * r > d THEN q + 1
        ELSE IF q % 2 = 0 THEN q ELSE q + 1

(* sorted(pairs, key = pair.key, reverse = True): descending and stable,   *)
(* equal keys keep their input order                                       *)
RECURSIVE SortedDesc_Ascending(_)
SortedDesc_Ascending(pairs) ==
    IF pairs = <<>> THEN <<>>
    ELSE LET last == pairs[Len(pairs)]
             done == SortedDesc_Ascending(SubSeq(pairs, 1, Len(pairs) - 1))
             pos  == Cardinality({i \in DOMAIN done : done[i].key <= last.key})
         IN  SubSeq(done, 1, pos) \o <<last>> \o SubSeq(done, pos + 1, Len(done))

RECURSIVE SortedDesc(_)
SortedDesc(pairs) ==
    IF pairs = <<>> THEN <<>>
    ELSE LET last == pairs[Len(pairs)]
             done == SortedDesc(SubSeq(pairs, 1, Len(pairs) - 1))
             pos  == Cardinality({i \in DOMAIN done : done[i].key >= last.key})
         IN  SubSeq(done, 1, pos) \o <<last>> \o SubSeq(done, pos + 1, Len(done))

RECURSIVE Total(_, _)
Total(rows, f) ==
    IF rows = <<>> THEN 0 ELSE rows[1][f] + Total(Tail(rows), f)

(* Inputs of the agents *)

DeptNames == <<"A", "B", "C">>

BudgetTotals == {0, 4}

VarianceTotals == {-5, 0, 2, 5}

AggregateCells ==
    {[department |-> DeptNames[i], budget_total |-> b, actual_total |-> b + v,
      variance_total |-> v]
         : i \in DOMAIN DeptNames, b \in BudgetTotals, v \in VarianceTotals}

DeptIndex(name) == CHOOSE i \in DOMAIN DeptNames : DeptNames[i] = name

(* aggregates as the analysis emits them: one per department, in ascending *)
(* order of department                                                     *)
AggregateLists ==
    UNION {{a \in [1..n -> AggregateCells] :
               \A i \in 1..(n - 1) :
                   DeptIndex(a[i].department) < DeptIndex(a[i + 1].department)}
           : n \in 0..MaxAggs}

(* the fields of a line item that an agent reads *)
LineItemCells ==
    {[material |-> TRUE, drivers |-> <<"overspend">>],
     [material |-> TRUE, drivers |-> <<"underspend">>],
     [material |-> TRUE, drivers |-> <<"baseline">>],
     [material |-> FALSE, drivers |-> <<"baseline">>]}

LineItemLists == UNION {[1..n -> LineItemCells] : n \in 0..MaxItems}

MetadataOf(items) ==
    [description |-> "Budget vs Actual variance analysis",
     row_count |-> Len(items),
     materiality_abs |-> 4,
     materiality_pct |-> <<1, 1>>]

ExplanationSummaries ==
    {[metadata |-> MetadataOf(li), aggregate |-> ag, line_items |-> li]
         : ag \in AggregateLists, li \in LineItemLists}

ForecastSummaries ==
    {[metadata |-> MetadataOf(<<>>), aggregate |-> ag, line_items |-> <<>>]
         : ag \in AggregateLists}

(* the environment variables that hold a non-empty value *)
EnvVars == {"AZURE_OPENAI_ENDPOINT", "AZURE_OPENAI_KEY", "AZURE_OPENAI_DEPLOYMENT"}

FocusLimits == {-1} \cup (0..MaxFocus)

(* what the backend does with a call: the call raises, the response has no *)
(* choice, its message has no content, or it carries text whose lines are  *)
(* bullets (TRUE) or prose (FALSE)                                         *)
Outcomes ==
    {[kind |-> k, lines |-> <<>>] : k \in {"raises", "no_choices", "no_content"}}
    \cup {[kind |-> "reply", lines |-> l]
             : l \in UNION {[1..n -> BOOLEAN] : n \in 0..MaxLines}}

(* an exception leaving a method *)
Raised == [mode |-> "raised", narrative |-> <<>>, points |-> <<>>]

(* ForecastingAgent *)

(* sorted(aggregate, key = |variance_total|, reverse = True) *)
Ranked(rows) ==
    LET pairs == [i \in DOMAIN rows |->
                     [key |-> Abs(rows[i].variance_total), row |-> rows[i]]]
        sorted == SortedDesc(pairs)
    IN  [i \in DOMAIN sorted |-> sorted[i].row]

(* "<dept>: currently about EUR <|v|> <direction>. Prioritise ..." *)
ForecastFocus(row) ==
    [kind |-> "department",
     department |-> row.department,
     amount |-> Abs(row.variance_total),
     direction |-> IF row.variance_total > 0 THEN "above budget"
                   ELSE IF row.variance_total < 0 THEN "below budget"
                   ELSE "on budget"]

(* "Overall variance is small; maintain current controls ..." *)
GenericFocus ==
    [kind |-> "generic", department |-> "", amount |-> 0, direction |-> ""]

(* line i of the backend's reply, stripped of its bullet mark *)
ReplyLine(i) ==
    [kind |-> "reply", department |-> "", amount |-> i, direction |-> ""]

(* the two fixed focus areas used when the reply has no bullet *)
CannedFocus ==
    <<[kind |-> "canned", department |-> "", amount |-> 1, direction |-> ""],
      [kind |-> "canned", department |-> "", amount |-> 2, direction |-> ""]>>

(* 2^e modulo m *)
RECURSIVE PowMod2(_, _)
PowMod2(e, m) == IF e = 0 THEN 1 % m ELSE (2 * PowMod2(e - 1, m)) % m

(* The percentage is the binary64 value p = fl(fl(a / b) * 100.0), and the *)
(* format spec ",.1f" rounds the exact value of p to tenths.  p differs     *)
(* from the exact 100 * a / b by a relative error below 2^-51, which       *)
(* decides the rounding only when 100 * a / b lies exactly between two     *)
(* tenths, that is when a / b = N / 2000 for an odd N.  FloatSide(N) is    *)
(* the sign of p - N / 20 for such an N > 0:                               *)
(*   q  = fl(N / 2000) * 2^e is the 53-bit significand of the quotient,    *)
(*        q = (N * 2^e + dn) / 2000 with dn the rounding of the division;  *)
(*   100 * q has 59 or 60 bits, so the product drops s = 6 or 7 bits:      *)
(*        its significand is (N * 2^e + dn) / D rounded to an integer,     *)
(*        a tie going to the even one, with D = 20 * 2^s;                  *)
(*   N / 20 is N * 2^e / D on the same scale.                              *)
(* Everything is computed from residues of N * 2^e.                        *)
FloatSide(N) ==
    LET up   == CHOOSE j \in 0..11 :
                    /\ N * 2^j >= 2000
                    /\ j = 0 \/ N * 2^(j - 1) < 2000
        down == CHOOSE j \in 0..20 :
                    /\ N \div 2^j >= 2000
                    /\ N \div 2^(j + 1) < 2000
        e    == IF N < 2000 THEN 52 + up ELSE 52 - down
        lead == IF N < 2000 THEN N * 2^up ELSE N \div 2^down
        even == IF N < 2000 THEN TRUE ELSE N % 2^down = 0
        rem  == ((N % 2000) * PowMod2(e, 2000)) % 2000
        dn   == IF 2 * rem > 2000 THEN 2000 - rem ELSE 0 - rem
        s    == IF lead < 2560 \/ (lead = 2560 /\ even /\ dn < 0) THEN 6 ELSE 7
        D    == 20 * 2^s
        t2   == ((N % (2 * D)) * PowMod2(e, 2 * D)) % (2 * D)
        t    == t2 % D
        u    == t + dn
        fl   == IF u < 0 THEN -1 ELSE IF u >= D THEN 1 ELSE 0
        w    == u - fl * D
        odd  == (t2 >= D) # (fl # 0)
        rho  == IF 2 * w < D THEN fl
                ELSE IF 2 * w > D THEN fl + 1
                ELSE IF odd THEN fl + 1 ELSE fl
        x    == rho * D - t
    IN  IF x > 0 THEN 1 ELSE IF x < 0 THEN -1 ELSE 0

(* format(fl(fl(a / b) * 100.0), ",.1f") for a >= 0, b > 0, in tenths of   *)
(* a percent                                                               *)
TenthsOf(a, b) ==
    IF 2 * ((1000 * a) % b) # b THEN RoundHalfEven(1000 * a, b)
    ELSE LET N    == (2000 * a) \div b
             k    == (N - 1) \div 2
             side == FloatSide(N)
         IN  IF side > 0 THEN k + 1
             ELSE IF side < 0 THEN k
             ELSE IF k % 2 = 0 THEN k ELSE k + 1

(* format(variance / total_budget * 100.0, ",.1f") for total_budget # 0:   *)
(* the digits in tenths of a percent, and whether the text starts with a   *)
(* minus sign, which it does for a negative value however small ("-0.0")   *)
(* and for the negative zero 0.0 / total_budget of a negative total_budget *)
PercentTenths(variance, total_budget) ==
    [minus  |-> IF variance = 0 THEN total_budget < 0
                ELSE (variance < 0) # (total_budget < 0),
     tenths |-> TenthsOf(Abs(variance), Abs(total_budget))]

ForecastRuleBased_NoDefault(s, max_focus_items) ==
    LET total_budget == Total(s.aggregate, "budget_total")
        total_actual == Total(s.aggregate, "actual_total")
        variance     == total_actual - total_budget
        variance_pct == IF total_budget # 0
                        THEN PercentTenths(variance, total_budget)
                        ELSE [minus |-> FALSE, tenths |-> 0]
        top          == Slice(Ranked(s.aggregate), max_focus_items)
        focus_areas  == [i \in DOMAIN top |-> ForecastFocus(top[i])]
    IN  [mode |-> "rule_based_forecast",
         narrative |->
             [kind |-> "rule",
              outlook |-> IF variance > 0 THEN "unfavourable"
                          ELSE IF variance < 0 THEN "favourable"
                          ELSE "on track",
              variance |-> variance,
              variance_pct |-> variance_pct],
         points |-> focus_areas]

ForecastRuleBased(s, max_focus_items) ==
    LET total_budget == Total(s.aggregate, "budget_total")
        total_actual == Total(s.aggregate, "actual_total")
        variance     == total_actual - total_budget
        variance_pct == IF total_budget # 0
                        THEN PercentTenths(variance, total_budget)
                        ELSE [minus |-> FALSE, tenths |-> 0]
        top          == Slice(Ranked(s.aggregate), max_focus_items)
        focus_areas  == [i \in DOMAIN top |-> ForecastFocus(top[i])]
    IN  [mode |-> "rule_based_forecast",
         narrative |->
             [kind |-> "rule",
              outlook |-> IF variance > 0 THEN "unfavourable"
                          ELSE IF variance < 0 THEN "favourable"
                          ELSE "on track",
              variance |-> variance,
              variance_pct |-> variance_pct],
         points |-> IF focus_areas = <<>> THEN <<GenericFocus>> ELSE focus_areas]

(* the numbers of the reply's bullet lines (bullet = TRUE) or prose lines *)
LinesOf(lines, bullet) ==
    SelectSeq([i \in DOMAIN lines |-> i], LAMBDA i : lines[i] = bullet)

ForecastLLM(s, max_focus_items, outcome) ==
    IF outcome.kind # "reply" THEN Raised
    ELSE LET bullets == LinesOf(outcome.lines, TRUE)
             prose   == LinesOf(outcome.lines, FALSE)
             focus_areas == IF bullets = <<>> THEN CannedFocus
                            ELSE [j \in DOMAIN bullets |-> ReplyLine(bullets[j])]
         IN  [mode |-> "llm_forecast",
              narrative |-> IF prose = <<>> THEN [kind |-> "canned", lines |-> <<>>]
                            ELSE [kind |-> "reply", lines |-> prose],
              points |-> Slice(focus_areas, max_focus_items)]

ForecastClient_IgnoresUseLlm(cfg0, env) == EnvVars \subseteq env

(* __init__: a client exists iff use_llm and the three variables are set *)
ForecastClient(cfg0, env) == cfg0.use_llm /\ EnvVars \subseteq env

ForecastRun_Propagating(has_client, s, max_focus_items, outcome) ==
    IF has_client THEN ForecastLLM(s, max_focus_items, outcome)
    ELSE ForecastRuleBased(s, max_focus_items)

(* run: the generative path if there is a client, the rule-based one if    *)
(* there is none or the generative path raised                             *)
ForecastRun(has_client, s, max_focus_items, outcome) ==
    IF has_client
    THEN LET r == ForecastLLM(s, max_focus_items, outcome)
         IN  IF r.mode = "raised" THEN ForecastRuleBased(s, max_focus_items)
             ELSE r
    ELSE ForecastRuleBased(s, max_focus_items)

(* ExplanationAgent *)

RECURSIVE Concat(_)
Concat(seqs) == IF seqs = <<>> THEN <<>> ELSE seqs[1] \o Concat(Tail(seqs))

(* the keys of a dict filled in this order *)
RECURSIVE Distinct(_)
Distinct(seq) ==
    IF seq = <<>> THEN <<>>
    ELSE LET front == Distinct(SubSeq(seq, 1, Len(seq) - 1))
             last  == seq[Len(seq)]
         IN  IF \E i \in DOMAIN front : front[i] = last THEN front
             ELSE Append(front, last)

(* "<department> (~ <variance_total>)" for the first two rows *)
Mentions(rows) ==
    LET top == Slice(rows, 2)
    IN  [i \in DOMAIN top |->
            [department |-> top[i].row.department, amount |-> top[i].row.variance_total]]

Bullet(k, n, d) == [kind |-> k, count |-> n, drivers |-> d]

ExplanationRuleBased(s) ==
    LET agg  == s.aggregate
        li   == s.line_items
        meta == s.metadata
        unfav == SortedDesc(
                     SelectSeq([i \in DOMAIN agg |->
                                   [key |-> agg[i].variance_total, row |-> agg[i]]],
                               LAMBDA p : p.key > 0))
        fav   == SortedDesc(
                     SelectSeq([i \in DOMAIN agg |->
                                   [key |-> 0 - agg[i].variance_total, row |-> agg[i]]],
                               LAMBDA p : p.key > 0))
        material == SelectSeq(li, LAMBDA x : x.material)
        named    == Concat([i \in DOMAIN material |-> material[i].drivers])
        keys     == Distinct(named)
        driver_counts ==
            [i \in DOMAIN keys |->
                [key |-> Cardinality({j \in DOMAIN named : named[j] = keys[i]}),
                 row |-> keys[i]]]
        top_drivers == Slice(SortedDesc(driver_counts), 4)
        bullets ==
            IF li # <<>>
            THEN <<Bullet("material_count", Len(material), <<>>)>>
                 \o (IF material # <<>> /\ driver_counts # <<>>
                     THEN <<Bullet("common_drivers", 0, top_drivers)>> ELSE <<>>)
            ELSE <<Bullet("no_material", 0, <<>>)>>
    IN  [mode |-> "rule_based",
         narrative |->
             [kind |-> "rule",
              row_count |-> meta.row_count,
              materiality_abs |-> meta.materiality_abs,
              materiality_pct |-> meta.materiality_pct,
              unfavorable |-> Mentions(unfav),
              favorable |-> Mentions(fav)],
         points |-> bullets \o <<Bullet("closing", 0, <<>>)>>]

(* _run_llm with _split_narrative_and_bullets; every prose line of a reply *)
(* is one sentence                                                         *)
ExplanationLLM(s, outcome) ==
    IF outcome.kind \in {"raises", "no_content"} THEN Raised
    ELSE IF outcome.kind = "no_choices" THEN ExplanationRuleBased(s)
    ELSE LET bullet_lines == LinesOf(outcome.lines, TRUE)
             prose        == LinesOf(outcome.lines, FALSE)
             shown == IF bullet_lines = <<>> /\ prose # <<>>
                      THEN Slice(prose, 4) ELSE bullet_lines
         IN  [mode |-> "llm",
              narrative |-> [kind |-> "reply", lines |-> prose],
              points |-> [j \in DOMAIN shown |-> ReplyLine(shown[j])]]

(* __init__: a client exists iff use_llm and the three variables are set *)
ExplanationClient(cfg0, env) == cfg0.use_llm /\ EnvVars \subseteq env

ExplanationConfigAfter_Untouched(cfg0, env) == cfg0

(* __init__: with use_llm and a variable missing, the configuration object *)
(* the caller passed in gets use_llm = False                               *)
ExplanationConfigAfter(cfg0, env) ==
    IF cfg0.use_llm /\ ~(EnvVars \subseteq env)
    THEN [cfg0 EXCEPT !.use_llm = FALSE] ELSE cfg0

(* run: the generative path if there is a client and use_llm holds, and    *)
(* the rule-based one otherwise or if the generative path raised           *)
ExplanationRun(uses_llm, s, outcome) ==
    IF uses_llm
    THEN LET r == ExplanationLLM(s, outcome)
         IN  IF r.mode = "raised" THEN ExplanationRuleBased(s) ELSE r
    ELSE ExplanationRuleBased(s)

(* what became of the external call: "none" if none was made, else what   *)
(* the backend did with it                                                 *)
CallMade(uses_llm, outcome) == IF uses_llm THEN outcome.kind ELSE "none"

(* what one __init__ saw (use_llm, whether the three variables were set)   *)
(* and whether it created a client                                         *)
Built(use_llm, env, has_client) ==
    [use_llm |-> use_llm, credentials |-> EnvVars \subseteq env,
     client |-> has_client]

AnalysisIdle ==
    /\ df = NoFrame
    /\ cfg = ExampleConfig
    /\ pc = "idle"
    /\ work = NoFrame
    /\ aggregate = <<>>
    /\ line_items = <<>>
    /\ metadata = NoMetadata
    /\ error = {}
    /\ runs = 0
    /\ first = NoSummary

InitAgents ==
    /\ kind \in {"explanation", "forecast"}
    /\ summary_dict \in IF kind = "explanation" THEN ExplanationSummaries
                        ELSE ForecastSummaries
    /\ config \in [use_llm : BOOLEAN,
                   max_focus_items : IF kind = "forecast" THEN FocusLimits ELSE {0}]
    /\ environ \in SUBSET EnvVars
    /\ client = FALSE
    /\ requested = FALSE
    /\ apc = "new"
    /\ result = NoResult
    /\ call = "none"
    /\ constructed = <<>>
    /\ AnalysisIdle
    /\ PeerIdle
    /\ AppIdle

ConstructExplanation ==
    /\ kind = "explanation"
    /\ apc = "new"
    /\ requested' = config.use_llm
    /\ client' = ExplanationClient(config, environ)
    /\ config' = ExplanationConfigAfter(config, environ)
    /\ constructed' = Append(constructed,
                             Built(config.use_llm, environ,
                                   ExplanationClient(config, environ)))
    /\ apc' = "ready"
    /\ UNCHANGED <<kind, summary_dict, environ, result, call>>
    /\ UNCHANGED <<analysisVars, peerVars, appVars>>

ConstructForecast ==
    /\ kind = "forecast"
    /\ apc = "new"
    /\ requested' = config.use_llm
    /\ client' = ForecastClient(config, environ)
    /\ constructed' = Append(constructed,
                             Built(config.use_llm, environ,
                                   ForecastClient(config, environ)))
    /\ apc' = "ready"
    /\ UNCHANGED <<kind, summary_dict, config, environ, result, call>>
    /\ UNCHANGED <<analysisVars, peerVars, appVars>>

RunExplanation ==
    /\ kind = "explanation"
    /\ apc = "ready"
    /\ \E outcome \in Outcomes :
          /\ result' = ExplanationRun(client /\ config.use_llm, summary_dict, outcome)
          /\ call' = CallMade(client /\ config.use_llm, outcome)
    /\ apc' = "returned"
    /\ UNCHANGED <<kind, summary_dict, config, environ, client, requested,
                   constructed>>
    /\ UNCHANGED <<analysisVars, peerVars, appVars>>

RunForecast ==
    /\ kind = "forecast"
    /\ apc = "ready"
    /\ \E outcome \in Outcomes :
          /\ result' = ForecastRun(client, summary_dict, config.max_focus_items,
                                   outcome)
          /\ call' = CallMade(client, outcome)
    /\ apc' = "returned"
    /\ UNCHANGED <<kind, summary_dict, config, environ, client, requested,
                   constructed>>
    /\ UNCHANGED <<analysisVars, peerVars, appVars>>

NextAgents ==
    \/ ConstructExplanation
    \/ ConstructForecast
    \/ RunExplanation
    \/ RunForecast

SpecAgents == InitAgents /\ [][NextAgents]_vars

-----------------------------------------------------------------------------
(* A caller that keeps one ExplanationConfig object and constructs         *)
(* ExplanationAgents from it one after the other, while the environment    *)
(* variables may get set in between.                                       *)

MaxAgents == 2

(* what the agents are run on: summaries of at most one group *)
ReuseSummaries == {s \in ExplanationSummaries : Len(s.aggregate) <= 1}

InitReuse ==
    /\ kind = "explanation"
    /\ summary_dict \in ReuseSummaries
    /\ config \in [use_llm : BOOLEAN, max_focus_items : {0}]
    /\ environ \in SUBSET EnvVars
    /\ client = FALSE
    /\ requested = FALSE
    /\ apc = "new"
    /\ result = NoResult
    /\ call = "none"
    /\ constructed = <<>>
    /\ AnalysisIdle
    /\ PeerIdle
    /\ AppIdle

(* os.environ gets one more of the variables __init__ reads *)
SetEnviron ==
    /\ kind = "explanation"
    /\ \E v \in EnvVars \ environ : environ' = environ \cup {v}
    /\ UNCHANGED <<kind, summary_dict, config, client, requested, apc, result,
                   call, constructed>>
    /\ UNCHANGED <<analysisVars, peerVars, appVars>>

(* ExplanationAgent(config) once more, with the same config object: the    *)
(* new agent starts with no client and takes the place of the earlier one  *)
ConstructAgain ==
    /\ kind = "explanation"
    /\ apc \in {"ready", "returned"}
    /\ Len(constructed) < MaxAgents
    /\ requested' = config.use_llm
    /\ client' = ExplanationClient(config, environ)
    /\ config' = ExplanationConfigAfter(config, environ)
    /\ constructed' = Append(constructed,
                             Built(config.use_llm, environ,
                                   ExplanationClient(config, environ)))
    /\ apc' = "ready"
    /\ result' = NoResult
    /\ call' = "none"
    /\ UNCHANGED <<kind, summary_dict, environ>>
    /\ UNCHANGED <<analysisVars, peerVars, appVars>>

NextReuse ==
    \/ ConstructExplanation
    \/ RunExplanation
    \/ SetEnviron
    \/ ConstructAgain

SpecReuse == InitReuse /\ [][NextReuse]_vars

-----------------------------------------------------------------------------
(* The dashboard (src/app.py), one browser session.  Streamlit runs main   *)
(* from the top on every interaction, so an action is one run of main: the *)
(* run an interaction triggers, or the run that st.rerun() asked for.  A   *)
(* run that ends in st.rerun() leaves rerun set, and the next run is that  *)
(* rerun, before any further interaction.  session_state holds authenticated, user_email, history and    *)
(* last_explanations ("" when absent); users is the users file, one        *)
(* record per row; history_files holds one record per history file.        *)
(* A history entry keeps run_id and the explanation's mode; created_by is  *)
(* not a field of the code's entry: it records the email the session was   *)
(* logged in with when the entry was made.                                 *)

MaxEntries == 2

Emails == {"u1", "u2"}

Passwords == {"p", "q"}

(* sha256 of the password: equal digests only for equal passwords *)
hash_password(password) == <<"sha256", password>>

(* user_history/history_<first 16 hex digits of sha256(email)>.json *)
history_file_for_email(email) == <<"user_history", <<"sha256", email>>>>

(* json.dump and json.load of a list of entries *)
json_dump(history) == [json |-> history]

json_load(document) == document.json

(* a missing file gives the empty list; every file there is was written    *)
(* by json.dump, so json.load succeeds                                     *)
load_user_history(files, email) ==
    LET path == history_file_for_email(email)
    IN  IF \E f \in files : f.path = path
        THEN json_load((CHOOSE f \in files : f.path = path).document)
        ELSE <<>>

(* the files after save_user_history(email, history) *)
save_user_history(files, email, history) ==
    IF email = "" THEN files
    ELSE LET path == history_file_for_email(email)
         IN  {f \in files : f.path # path}
                 \cup {[path |-> path, document |-> json_dump(history)]}

MainEntry_KeepsHistory(ss) == ss

(* the top of main: an unauthenticated run empties the history *)
MainEntry(ss) == IF ss.authenticated THEN ss ELSE [ss EXCEPT !.history = <<>>]

NextRunId_AlwaysOne(history) == 1

(* 1 for an empty history, else the largest run_id + 1 *)
NextRunId(history) ==
    IF history # <<>>
    THEN (CHOOSE m \in {history[i].run_id : i \in DOMAIN history} :
              \A i \in DOMAIN history : history[i].run_id <= m) + 1
    ELSE 1

InitApp ==
    /\ session_state = NoSession
    /\ users = {}
    /\ history_files = {}
    /\ rerun = FALSE
    /\ AnalysisIdle
    /\ AgentsIdle
    /\ PeerIdle

(* the "Create Account" form, all fields filled (the name is not kept in   *)
(* the model), passwords equal and the email not yet registered            *)
SignupSubmit ==
    /\ ~rerun
    /\ ~session_state.authenticated
    /\ \E new_email \in Emails \cup {""},
          new_password, confirm_password \in Passwords \cup {""} :
          /\ new_email # ""
          /\ new_password # ""
          /\ new_password = confirm_password
          /\ ~\E u \in users : u.email = new_email
          /\ users' = users \cup {[email |-> new_email,
                                   password_hash |-> hash_password(new_password)]}
    /\ session_state' = MainEntry(session_state)
    /\ UNCHANGED <<history_files, rerun>>
    /\ UNCHANGED <<analysisVars, agentVars, peerVars>>

(* the "Login" form with a registered email and its password; the run     *)
(* ends in st.rerun()                                                      *)
LoginSubmit ==
    /\ ~rerun
    /\ ~session_state.authenticated
    /\ \E email \in Emails \cup {""}, password \in Passwords \cup {""} :
          /\ email # ""
          /\ password # ""
          /\ \E u \in users :
                /\ u.email = email
                /\ u.password_hash = hash_password(password)
          /\ session_state' =
                 [MainEntry(session_state) EXCEPT
                      !.authenticated = TRUE,
                      !.user_email = email,
                      !.history = load_user_history(history_files, email)]
    /\ rerun' = TRUE
    /\ UNCHANGED <<users, history_files>>
    /\ UNCHANGED <<analysisVars, agentVars, peerVars>>

(* the "Logout" button; the run ends in st.rerun() with the history still  *)
(* in the session                                                          *)
Logout ==
    /\ ~rerun
    /\ session_state.authenticated
    /\ history_files' = save_user_history(history_files, session_state.user_email,
                                          session_state.history)
    /\ session_state' =
           [MainEntry(session_state) EXCEPT
                !.authenticated = FALSE,
                !.last_explanations = ""]
    /\ rerun' = TRUE
    /\ UNCHANGED users
    /\ UNCHANGED <<analysisVars, agentVars, peerVars>>

(* the "Generate Variance Explanations" button on the main dashboard; the  *)
(* explanation's mode is whatever the ExplanationAgent returned            *)
Generate ==
    /\ ~rerun
    /\ session_state.authenticated
    /\ Len(session_state.history) < MaxEntries
    /\ \E mode \in {"llm", "rule_based"} :
          LET ss == MainEntry(session_state)
              current_user == ss.user_email
              entry == [run_id |-> NextRunId(ss.history),
                        created_by |-> current_user,
                        mode |-> mode]
              history == Append(ss.history, entry)
          IN  /\ session_state' = [ss EXCEPT !.history = history,
                                             !.last_explanations = mode]
              /\ history_files' = save_user_history(history_files, current_user,
                                                    history)
    /\ UNCHANGED <<users, rerun>>
    /\ UNCHANGED <<analysisVars, agentVars, peerVars>>

(* the run of main that st.rerun() asked for, with no widget triggered:    *)
(* the login page for an unauthenticated session, the dashboard otherwise  *)
Rerun ==
    /\ rerun
    /\ session_state' = MainEntry(session_state)
    /\ rerun' = FALSE
    /\ UNCHANGED <<users, history_files>>
    /\ UNCHANGED <<analysisVars, agentVars, peerVars>>

NextApp ==
    \/ SignupSubmit
    \/ LoginSubmit
    \/ Logout
    \/ Generate
    \/ Rerun

SpecApp == InitApp /\ [][NextApp]_vars

-----------------------------------------------------------------------------
(* Properties of the returned summary *)

Items == {line_items[i] : i \in DOMAIN line_items}

Groups == {aggregate[j] : j \in DOMAIN aggregate}

(* q is the finite ratio num / den (den # 0) *)
IsRatio(q, num, den) == q.k = "fin" /\ q.n * den = num * q.d

(* |q| >= p/t for a percentage that is present *)
PctAtLeast(q, thr) ==
    \/ q.k = "inf"
    \/ q.k = "fin" /\ Abs(q.n) * thr[2] >= thr[1] * q.d

(* the cleaned rows: input rows whose budget and actual are numbers *)
Parsed(cell) == IF cell.k = "text" /\ cell.s = "4" THEN 4 ELSE cell.n

Parseable(cell) == cell.k = "fin" \/ (cell.k = "text" /\ cell.s = "4")

CleanedInput ==
    SelectSeq(df.rows, LAMBDA r : Parseable(r.budget) /\ Parseable(r.actual))

RECURSIVE SumItems(_, _, _)
SumItems(items, group, f) ==
    IF items = <<>> THEN 0
    ELSE (IF items[1].department = group THEN items[1][f] ELSE 0)
         + SumItems(Tail(items), group, f)

RECURSIVE SumAll(_, _)
SumAll(seq, f) ==
    IF seq = <<>> THEN 0 ELSE seq[1][f] + SumAll(Tail(seq), f)

(* C1: in every emitted line item variance_pct is None when budget is 0    *)
(* and is variance / budget when budget is not 0.                          *)
C1_VariancePctZeroGuard ==
    pc = "done" =>
        \A li \in Items :
            /\ li.budget = 0 => li.variance_pct = None
            /\ li.budget # 0 => IsRatio(li.variance_pct, li.variance, li.budget)

(* C2: a line item with budget 0 is material exactly when                  *)
(* |variance| >= materiality_threshold_abs, whatever the percentage        *)
(* threshold is.                                                           *)
C2_ZeroBudgetMaterialOnlyByAbs ==
    pc = "done" =>
        \A li \in Items :
            li.budget = 0 =>
                (li.material <=> Abs(li.variance) >= cfg.materiality_threshold_abs)

(* C3: material is true iff |variance| >= materiality_threshold_abs or     *)
(* variance_pct is present and |variance_pct| >= materiality_threshold_pct,*)
(* both comparisons inclusive.                                             *)
C3_MaterialIff ==
    pc = "done" =>
        \A li \in Items :
            li.material <=>
                \/ Abs(li.variance) >= cfg.materiality_threshold_abs
                \/ /\ li.variance_pct # None
                   /\ PctAtLeast(li.variance_pct, cfg.materiality_threshold_pct)

C3_Witness ==
    /\ pc = "done"
    /\ \E li \in Items :
          /\ li.material
          /\ Abs(li.variance) < cfg.materiality_threshold_abs
          /\ li.variance_pct.k = "fin"
          /\ Abs(li.variance_pct.n) * cfg.materiality_threshold_pct[2]
                 = cfg.materiality_threshold_pct[1] * li.variance_pct.d
    /\ \E li \in Items :
          /\ li.material
          /\ Abs(li.variance) = cfg.materiality_threshold_abs
          /\ li.variance # 0

(* C4: the i-th line item carries budget and actual of the i-th cleaned    *)
(* input row and variance = actual - budget, so variance > 0 exactly when  *)
(* actual exceeded budget.                                                 *)
C4_VarianceIsActualMinusBudget ==
    pc = "done" =>
        /\ Len(line_items) = Len(CleanedInput)
        /\ \A i \in DOMAIN line_items :
              /\ line_items[i].budget = Parsed(CleanedInput[i].budget)
              /\ line_items[i].actual = Parsed(CleanedInput[i].actual)
              /\ line_items[i].variance
                     = Parsed(CleanedInput[i].actual) - Parsed(CleanedInput[i].budget)
              /\ line_items[i].variance > 0
                     <=> line_items[i].actual > line_items[i].budget

C4_Witness ==
    /\ pc = "done"
    /\ Len(line_items) < Len(df.rows)
    /\ \E li \in Items : li.variance > 0 /\ li.budget # 0

(* C5: direction is "neutral" iff |variance| is within the tolerance 1e-8  *)
(* of 0, otherwise "unfavorable" for a positive and "favorable" for a      *)
(* negative variance; there is no other direction.                         *)
C5_Direction ==
    pc = "done" =>
        \A li \in Items :
            /\ li.direction \in {"neutral", "unfavorable", "favorable"}
            /\ li.direction = "neutral" <=> Abs(li.variance) * AtolInv <= UnitInv
            /\ li.direction = "unfavorable"
                   <=> (li.variance > 0 /\ Abs(li.variance) * AtolInv > UnitInv)
            /\ li.direction = "favorable"
                   <=> (li.variance < 0 /\ Abs(li.variance) * AtolInv > UnitInv)

C5_Witness ==
    /\ pc = "done"
    /\ \E li \in Items : li.direction = "neutral" /\ li.variance # 0
    /\ \E li \in Items : li.direction = "favorable"

(* C6 as claimed: drivers holds exactly one tag, "overspend" iff material  *)
(* and unfavorable, "underspend" iff material and favorable, "baseline"    *)
(* iff not material.                                                       *)
C6_DriversAsClaimed ==
    pc = "done" =>
        \A li \in Items :
            /\ Len(li.drivers) = 1
            /\ li.drivers[1] = "overspend"
                   <=> (li.material /\ li.direction = "unfavorable")
            /\ li.drivers[1] = "underspend"
                   <=> (li.material /\ li.direction = "favorable")
            /\ li.drivers[1] = "baseline" <=> ~li.material

(* C6 amended: drivers holds exactly one tag, "overspend" iff material and *)
(* unfavorable, "underspend" iff material and favorable, "baseline" iff    *)
(* not material or the direction is neutral.                               *)
C6_Drivers ==
    pc = "done" =>
        \A li \in Items :
            /\ Len(li.drivers) = 1
            /\ li.drivers[1] \in {"overspend", "underspend", "baseline"}
            /\ li.drivers[1] = "overspend"
                   <=> (li.material /\ li.direction = "unfavorable")
            /\ li.drivers[1] = "underspend"
                   <=> (li.material /\ li.direction = "favorable")
            /\ li.drivers[1] = "baseline"
                   <=> (~li.material \/ li.direction = "neutral")

C6_Witness ==
    /\ pc = "done"
    /\ \E li \in Items :
          /\ li.material /\ li.direction = "neutral"
          /\ li.variance_pct.k = "fin"
          /\ li.drivers = <<"baseline">>
    /\ \E li \in Items : li.drivers = <<"underspend">>

(* C7: every aggregate entry sums budget and actual over exactly the line  *)
(* items of its group, and variance_total = actual_total - budget_total.   *)
C7_GroupTotals ==
    pc = "done" =>
        \A a \in Groups :
            /\ a.budget_total = SumItems(line_items, a.department, "budget")
            /\ a.actual_total = SumItems(line_items, a.department, "actual")
            /\ a.variance_total = a.actual_total - a.budget_total

C7_Witness ==
    /\ pc = "done"
    /\ Len(line_items) = 2
    /\ Len(aggregate) = 2
    /\ \A a \in Groups : a.budget_total # 0 /\ a.variance_total # 0

(* C8: the aggregates have one entry per distinct group of the line items, *)
(* the same set of group names, and their totals summed over all groups    *)
(* equal the line-item totals.                                             *)
C8_EveryRowAggregated ==
    pc = "done" =>
        /\ \A j, k \in DOMAIN aggregate :
              aggregate[j].department = aggregate[k].department => j = k
        /\ {a.department : a \in Groups} = {li.department : li \in Items}
        /\ SumAll(aggregate, "budget_total") = SumAll(line_items, "budget")
        /\ SumAll(aggregate, "actual_total") = SumAll(line_items, "actual")

(* C9 as claimed: variance_pct_total is None when budget_total is 0 and is *)
(* variance_total / budget_total when budget_total is not 0.               *)
C9_PctTotalAsClaimed ==
    pc = "done" =>
        \A a \in Groups :
            /\ a.budget_total = 0 => a.variance_pct_total = None
            /\ a.budget_total # 0
                   => IsRatio(a.variance_pct_total, a.variance_total, a.budget_total)

(* C9 amended: variance_pct_total is None when budget_total is within the  *)
(* tolerance 1e-8 of 0 (in particular when non-zero budgets cancel to 0)   *)
(* and is variance_total / budget_total otherwise.                         *)
C9_PctTotal ==
    pc = "done" =>
        \A a \in Groups :
            /\ Abs(a.budget_total) * AtolInv <= UnitInv
                   => a.variance_pct_total = None
            /\ Abs(a.budget_total) * AtolInv > UnitInv
                   => IsRatio(a.variance_pct_total, a.variance_total, a.budget_total)

C9_Witness ==
    /\ pc = "done"
    /\ \E a \in Groups :
          /\ a.budget_total = 0
          /\ a.variance_pct_total = None
          /\ \A li \in Items : li.department = a.department /\ li.budget # 0
    /\ Len(line_items) = 2

(* C10: when required columns are missing, run raises naming exactly the   *)
(* missing required columns, before any row is coerced, dropped or         *)
(* classified; a missing period column alone never raises.                 *)
C10_MissingColumns ==
    LET required == {"department", "account", "budget", "actual"}
    IN  /\ pc = "raised" =>
              /\ error = required \ df.columns
              /\ error # {}
              /\ work = NoFrame /\ aggregate = <<>> /\ line_items = <<>>
              /\ metadata = NoMetadata
        /\ (required \subseteq df.columns) => (pc # "raised" /\ error = {})
        /\ (~(required \subseteq df.columns) /\ pc # "start") => pc = "raised"

C10_Witness ==
    /\ pc = "raised"
    /\ Cardinality(error) = 2
    /\ period_col \in df.columns
    /\ Len(df.rows) = 1

(* the group name under which a cleaned row is reported *)
GroupName(cell) == IF cell.k = "text" THEN cell.s ELSE "nan"

RECURSIVE SumInput(_, _, _)
SumInput(rows, group, col) ==
    IF rows = <<>> THEN 0
    ELSE (IF /\ Parseable(rows[1].budget) /\ Parseable(rows[1].actual)
             /\ GroupName(rows[1].department) = group
          THEN Parsed(rows[1][col]) ELSE 0)
         + SumInput(Tail(rows), group, col)

(* C11: the line items are exactly the input rows whose budget and actual  *)
(* both parse, in input order; a row with an unparseable budget or actual  *)
(* yields no line item and adds nothing (not even 0 for the bad cell's     *)
(* partner) to any aggregate.                                              *)
C11_UnparseableRowsDropped ==
    pc = "done" =>
        /\ LET kept == CleanedInput
           IN  /\ Len(line_items) = Len(kept)
               /\ \A i \in DOMAIN line_items :
                     /\ line_items[i].department = GroupName(kept[i].department)
                     /\ line_items[i].account = kept[i].account.s
                     /\ line_items[i].budget = Parsed(kept[i].budget)
                     /\ line_items[i].actual = Parsed(kept[i].actual)
        /\ \A a \in Groups :
              /\ a.budget_total = SumInput(df.rows, a.department, "budget")
              /\ a.actual_total = SumInput(df.rows, a.department, "actual")

C11_Witness ==
    /\ pc = "done"
    /\ Len(df.rows) = 2
    /\ df.rows[1].actual = NaN
    /\ df.rows[1].budget = Num(1)
    /\ df.rows[1].department = df.rows[2].department
    /\ Len(line_items) = 1
    /\ Len(aggregate) = 1

(* C12: with the four required columns present run never raises, whatever  *)
(* the rows hold: it is never in the raised state, no error is recorded,   *)
(* and no group reaches the division with a zero divisor.                  *)
C12_OnlyValidationRaises ==
    ({"department", "account", "budget", "actual"} \subseteq df.columns) =>
        /\ pc # "raised"
        /\ error = {}
        /\ pc = "tagged" =>
               \A k \in DOMAIN KeyOrder : ~ZeroDivision(work.rows, KeyOrder[k])

C12_Witness ==
    /\ pc = "done"
    /\ Len(df.rows) = 2
    /\ df.rows[1].budget = Text("n/a")
    /\ Len(line_items) = 1
    /\ line_items[1].budget = 0
    /\ line_items[1].actual # 0
    /\ \E a \in Groups : a.budget_total = 0

(* C13: metadata.row_count is the number of input rows left after the      *)
(* unparseable ones are dropped, and the length of the line-item sequence. *)
C13_RowCount ==
    pc = "done" =>
        /\ metadata.row_count = Len(CleanedInput)
        /\ metadata.row_count = Len(line_items)

C13_Witness ==
    /\ pc = "done"
    /\ Len(df.rows) = 2
    /\ metadata.row_count = 1

(* thresholds c1 are at most thresholds c2, component by component *)
ThresholdsLeq(c1, c2) ==
    /\ c1.materiality_threshold_abs <= c2.materiality_threshold_abs
    /\ c1.materiality_threshold_pct[1] * c2.materiality_threshold_pct[2]
           <= c2.materiality_threshold_pct[1] * c1.materiality_threshold_pct[2]

(* C14: for a fixed row, a row that is material under thresholds c2 is     *)
(* material under any thresholds c1 <= c2: raising a threshold never makes *)
(* a row material, lowering one never makes it non-material.               *)
C14_MaterialityMonotonic ==
    pc = "done" =>
        \A i \in DOMAIN work.rows : \A c1, c2 \in Configs :
            ThresholdsLeq(c1, c2) =>
                (Tagged(work.rows[i], c2).is_material
                     => Tagged(work.rows[i], c1).is_material)

C14_Witness ==
    /\ pc = "done"
    /\ \E i \in DOMAIN work.rows : \E c1, c2 \in Configs :
          /\ ThresholdsLeq(c1, c2)
          /\ work.rows[i].variance_pct.k = "fin"
          /\ Tagged(work.rows[i], c1).is_material
          /\ ~Tagged(work.rows[i], c2).is_material
          /\ c1.materiality_threshold_abs = c2.materiality_threshold_abs

IsExampleTable ==
    /\ Len(df.rows) = Len(ExampleRows)
    /\ \A i \in DOMAIN df.rows :
          \A c \in {"department", "account", "budget", "actual"} :
              df.rows[i][c] = ExampleRows[i][c]

(* C15: on the example (amounts divided by 10) run yields A/x1 variance    *)
(* 20, pct 0.2, material, unfavorable, [overspend]; A/x2 variance -10,     *)
(* pct -0.2, material, favorable, [underspend]; B/y1 variance 5, pct       *)
(* absent, not material, unfavorable, [baseline]; aggregate A 150/160/10   *)
(* with pct 1/15; aggregate B 0/5/5 with pct absent.                       *)
C15_EndToEndExample ==
    (pc = "done" /\ IsExampleTable) =>
        /\ Len(line_items) = 3
        /\ line_items[1].variance = 20
        /\ IsRatio(line_items[1].variance_pct, 1, 5)
        /\ line_items[1].material
        /\ line_items[1].direction = "unfavorable"
        /\ line_items[1].drivers = <<"overspend">>
        /\ line_items[2].variance = -10
        /\ IsRatio(line_items[2].variance_pct, -1, 5)
        /\ line_items[2].material
        /\ line_items[2].direction = "favorable"
        /\ line_items[2].drivers = <<"underspend">>
        /\ line_items[3].variance = 5
        /\ line_items[3].variance_pct = None
        /\ ~line_items[3].material
        /\ line_items[3].direction = "unfavorable"
        /\ line_items[3].drivers = <<"baseline">>
        /\ Len(aggregate) = 2
        /\ aggregate[1].department = "A"
        /\ aggregate[1].budget_total = 150
        /\ aggregate[1].actual_total = 160
        /\ aggregate[1].variance_total = 10
        /\ IsRatio(aggregate[1].variance_pct_total, 1, 15)
        /\ aggregate[2].department = "B"
        /\ aggregate[2].budget_total = 0
        /\ aggregate[2].actual_total = 5
        /\ aggregate[2].variance_total = 5
        /\ aggregate[2].variance_pct_total = None

C17_InputsUntouched == [][df' = df /\ cfg' = cfg]_vars

C17_Witness ==
    /\ pc = "done"
    /\ \E i \in DOMAIN df.rows : df.rows[i].budget = Text("4")
    /\ \E i \in DOMAIN df.rows : df.rows[i].actual = NaN
    /\ Len(line_items) = 1
    /\ line_items[1].budget = 4

(* the deterministic generator of the agent at hand, on the summary given  *)
RuleBasedResult ==
    IF kind = "explanation" THEN ExplanationRuleBased(summary_dict)
    ELSE ForecastRuleBased(summary_dict, config.max_focus_items)

RuleBasedMode == IF kind = "explanation" THEN "rule_based" ELSE "rule_based_forecast"

GenerativeMode == IF kind = "explanation" THEN "llm" ELSE "llm_forecast"

(* C18: run of either agent never lets a failure of the generative path    *)
(* out: when no backend is configured (no call is made), when the call     *)
(* raises, or when the response has no choice or no content, run returns   *)
(* exactly what the rule-based generator returns for the same summary.     *)
C18_FallsBackToRuleBased ==
    apc = "returned" =>
        /\ result.mode # "raised"
        /\ call \in {"none", "raises", "no_choices", "no_content"}
               => result = RuleBasedResult

C18_Witness ==
    /\ apc = "returned"
    /\ kind = "forecast"
    /\ client
    /\ call = "no_content"
    /\ Len(summary_dict.aggregate) = 2
    /\ result.mode = "rule_based_forecast"
    /\ Len(result.points) = 2

(* C19: the mode of a result names the path that produced it: it is the    *)
(* generative mode only if the external call was made and answered with    *)
(* text, it is the rule-based mode exactly when the result is the          *)
(* deterministic generator's, and an agent constructed with use_llm =      *)
(* False makes no call and returns the rule-based mode.                    *)
C19_ModeTruthful ==
    apc = "returned" =>
        /\ result.mode \in {RuleBasedMode, GenerativeMode}
        /\ result.mode = GenerativeMode => call = "reply"
        /\ result.mode = RuleBasedMode <=> result = RuleBasedResult
        /\ ~requested => (call = "none" /\ result.mode = RuleBasedMode)

C19_Witness ==
    /\ apc = "returned"
    /\ kind = "forecast"
    /\ ~requested
    /\ EnvVars \subseteq environ
    /\ call = "none"
    /\ result.mode = "rule_based_forecast"
    /\ summary_dict.aggregate # <<>>

(* C20 as claimed: the forecast's focus_areas are group entries in         *)
(* descending order of |variance_total| and number at most                 *)
(* max_focus_items, for every summary and every max_focus_items.           *)
C20_FocusRankedAndCapped ==
    (apc = "returned" /\ kind = "forecast") =>
        /\ Len(result.points) <= config.max_focus_items
        /\ \A i \in DOMAIN result.points : result.points[i].kind = "department"
        /\ \A i, j \in DOMAIN result.points :
              i < j => result.points[i].amount >= result.points[j].amount

(* how many aggregates aggregate[:max_focus_items] selects *)
Selected(n, m) == IF m >= 0 THEN Min(m, n) ELSE Max(n + m, 0)

(* C20 amended: the rule-based focus_areas are the first max_focus_items   *)
(* groups in descending order of |variance_total| (equal ones in input     *)
(* order), or the single generic entry when that selection is empty, so    *)
(* for max_focus_items >= 0 they number at most max(max_focus_items, 1);   *)
(* the generative focus_areas are the reply's bullet lines in reply order, *)
(* or two fixed entries when it has none, cut to the first                 *)
(* max_focus_items, and are not ranked by variance.  A negative            *)
(* max_focus_items drops that many entries from the end instead.           *)
C20_Focus ==
    (apc = "returned" /\ kind = "forecast") =>
        LET pts  == result.points
            m    == config.max_focus_items
            aggs == summary_dict.aggregate
            n    == Selected(Len(aggs), m)
        IN  IF result.mode = "rule_based_forecast"
            THEN /\ n = 0 => pts = <<GenericFocus>>
                 /\ n > 0 =>
                       /\ Len(pts) = n
                       /\ \A i \in DOMAIN pts :
                             /\ pts[i].kind = "department"
                             /\ \E k \in DOMAIN aggs :
                                   /\ aggs[k].department = pts[i].department
                                   /\ Abs(aggs[k].variance_total) = pts[i].amount
                       /\ \A i, j \in DOMAIN pts :
                             i < j =>
                                 \/ pts[i].amount > pts[j].amount
                                 \/ /\ pts[i].amount = pts[j].amount
                                    /\ DeptIndex(pts[i].department)
                                           < DeptIndex(pts[j].department)
                       /\ \A k \in DOMAIN aggs :
                             Abs(aggs[k].variance_total) > pts[Len(pts)].amount
                                 => \E i \in DOMAIN pts :
                                        pts[i].department = aggs[k].department
                 /\ m >= 0 => Len(pts) <= Max(m, 1)
            ELSE /\ \A i \in DOMAIN pts : pts[i].kind \in {"reply", "canned"}
                 /\ \A i, j \in DOMAIN pts :
                       i < j => pts[i].amount < pts[j].amount
                 /\ m >= 0 => Len(pts) <= m

C20_Witness ==
    /\ apc = "returned"
    /\ kind = "forecast"
    /\ result.mode = "rule_based_forecast"
    /\ config.max_focus_items = 1
    /\ Len(summary_dict.aggregate) = 2
    /\ Abs(summary_dict.aggregate[1].variance_total)
           < Abs(summary_dict.aggregate[2].variance_total)
    /\ Len(result.points) = 1
    /\ result.points[1].department = summary_dict.aggregate[2].department

(* C21: to_dict keeps the summary as it is: the metadata, every aggregate  *)
(* and every line item in the same position with the same field values; a  *)
(* percentage that is None in the summary is None in the dict (not 0), and *)
(* its record is present.                                                  *)
C21_ToDictPreserves ==
    pc = "serialized" =>
        /\ summary_dict.metadata = metadata
        /\ Len(summary_dict.aggregate) = Len(aggregate)
        /\ Len(summary_dict.line_items) = Len(line_items)
        /\ \A j \in DOMAIN aggregate :
              /\ \A f \in {"department", "budget_total", "actual_total",
                            "variance_total", "variance_pct_total"} :
                     summary_dict.aggregate[j][f] = aggregate[j][f]
              /\ aggregate[j].variance_pct_total = None
                     <=> summary_dict.aggregate[j].variance_pct_total = None
        /\ \A i \in DOMAIN line_items :
              /\ \A f \in {"department", "account", "period", "budget", "actual",
                            "variance", "variance_pct", "direction", "material",
                            "drivers"} :
                     summary_dict.line_items[i][f] = line_items[i][f]
              /\ line_items[i].variance_pct = None
                     <=> summary_dict.line_items[i].variance_pct = None

C21_Witness ==
    /\ pc = "serialized"
    /\ Len(summary_dict.line_items) = 2
    /\ summary_dict.line_items[1].variance_pct = None
    /\ summary_dict.line_items[2].variance_pct.k = "fin"
    /\ \E j \in DOMAIN summary_dict.aggregate :
          summary_dict.aggregate[j].variance_pct_total = None

(* C22: two interleaved calls of run on different tables do not interact:  *)
(* whatever the interleaving, each call that returns gives the summary it  *)
(* gives when run alone on its table, and a call that raises raises as it  *)
(* does alone.                                                             *)
C22_CallsDoNotInteract ==
    /\ pc = "done" => Summary = SummaryOf(RunAlone(df, cfg))
    /\ pc = "raised" => error = RunAlone(df, cfg).error
    /\ peer.pc = "done" => SummaryOf(peer) = SummaryOf(RunAlone(peer.df, peer.cfg))
    /\ peer.pc = "raised" => peer.error = RunAlone(peer.df, peer.cfg).error

C22_Witness ==
    /\ pc = "variances"
    /\ peer.pc = "done"
    /\ Len(peer.line_items) = 2
    /\ Len(df.rows) = 2
    /\ Len(work.rows) = 1
    /\ peer.line_items[1].department # work.rows[1].department.s

(* C23: a line item that is material while its direction is neutral has    *)
(* the single driver "baseline", never "overspend" or "underspend"; so a   *)
(* "baseline" item may be material, and then its direction is neutral.     *)
C23_MaterialNeutralIsBaseline ==
    pc = "done" =>
        \A li \in Items :
            /\ (li.material /\ li.direction = "neutral") => li.drivers = <<"baseline">>
            /\ (li.material /\ li.drivers = <<"baseline">>) => li.direction = "neutral"

C23_Witness ==
    /\ pc = "done"
    /\ cfg.materiality_threshold_abs = 0
    /\ \E li \in Items :
          /\ li.variance = 0
          /\ li.material
          /\ li.direction = "neutral"
          /\ li.drivers = <<"baseline">>
    /\ \E li \in Items : li.drivers = <<"overspend">>

(* C24: the aggregates come in ascending order of group name whatever the  *)
(* order in which the groups first appear in the input, so a run on the    *)
(* same rows in another order returns the same aggregate sequence, and     *)
(* the same line items in another order.                                   *)
KeyRank(name) == CHOOSE k \in DOMAIN KeyOrder : Str(KeyOrder[k]) = name

C24_AggregatesSortedByName ==
    pc = "done" =>
        /\ \A i, j \in DOMAIN aggregate :
               i < j => KeyRank(aggregate[i].department) < KeyRank(aggregate[j].department)
        /\ runs >= 1 =>
               /\ aggregate = first.aggregate
               /\ Len(line_items) = Len(first.line_items)
               /\ \E q \in Permutations(DOMAIN line_items) :
                      line_items = Permuted(first.line_items, q)

C24_Witness ==
    /\ pc = "done"
    /\ runs >= 1
    /\ Len(aggregate) = 2
    /\ work.rows[1][department_col] = Text("B")
    /\ aggregate[1].department = "A"
    /\ line_items # first.line_items
    /\ first.line_items[1].department = "A"

(* C25: once an ExplanationAgent was constructed with use_llm = True while *)
(* a credential was missing, the caller's config has use_llm = False, and  *)
(* every agent constructed from that config afterwards has no client and   *)
(* answers rule-based without an external call, even if the credentials    *)
(* have been set in the meantime.                                          *)
Disabled(i) == constructed[i].use_llm /\ ~constructed[i].credentials

C25_ConfigStaysRuleBased ==
    \A i \in DOMAIN constructed :
        Disabled(i) =>
            /\ ~config.use_llm
            /\ ~client
            /\ \A j \in DOMAIN constructed :
                   j > i => ~constructed[j].use_llm /\ ~constructed[j].client
            /\ apc = "returned" => result.mode = "rule_based" /\ call = "none"

C25_Witness ==
    /\ Len(constructed) = 2
    /\ Disabled(1)
    /\ constructed[2].credentials
    /\ environ = EnvVars
    /\ apc = "returned"
    /\ result.mode = "rule_based"

(* C26: the rule-based forecast never returns an empty focus_areas: when   *)
(* the selection of groups is empty (no aggregates, or max_focus_items     *)
(* takes none of them) it holds the single generic entry, and otherwise    *)
(* one entry per selected group.                                           *)
C26_FocusNeverEmpty ==
    (apc = "returned" /\ result.mode = "rule_based_forecast") =>
        /\ result.points # <<>>
        /\ Selected(Len(summary_dict.aggregate), config.max_focus_items) = 0
               <=> result.points = <<GenericFocus>>
        /\ Selected(Len(summary_dict.aggregate), config.max_focus_items) > 0
               => \A i \in DOMAIN result.points : result.points[i].kind # "generic"

C26_Witness ==
    /\ apc = "returned"
    /\ result.mode = "rule_based_forecast"
    /\ config.max_focus_items = 0
    /\ Len(summary_dict.aggregate) = 2
    /\ result.points = <<GenericFocus>>

(* C27: the history of the session holds only entries made under the       *)
(* email the session is logged in with (or, between a logout and the run   *)
(* that follows it, was logged in with), and it is empty after every run   *)
(* of main that found the session unauthenticated, so whenever the login   *)
(* page is up; every history file holds only entries made under the email  *)
(* it belongs to.  A login loads the history from the file of the email    *)
(* that logged in, and a logout writes the history to the file of the      *)
(* email that was logged in and to no other file.                          *)
OwnEntries(history, email) ==
    \A i \in DOMAIN history : history[i].created_by = email

C27_State ==
    /\ (~session_state.authenticated /\ ~rerun) => session_state.history = <<>>
    /\ OwnEntries(session_state.history, session_state.user_email)
    /\ \A email \in Emails :
           OwnEntries(load_user_history(history_files, email), email)

C27_Step ==
    /\ (~session_state.authenticated /\ ~session_state'.authenticated) =>
           session_state'.history = <<>>
    /\ (~session_state.authenticated /\ session_state'.authenticated) =>
           session_state'.history =
               load_user_history(history_files, session_state'.user_email)
    /\ (session_state.authenticated /\ ~session_state'.authenticated) =>
           /\ load_user_history(history_files', session_state.user_email)
                  = session_state.history
           /\ \A email \in Emails \ {session_state.user_email} :
                  load_user_history(history_files', email)
                      = load_user_history(history_files, email)

C27_HistoryIsOwn == []C27_State /\ [][C27_Step]_vars

C27_Witness ==
    /\ ~rerun
    /\ session_state.authenticated
    /\ session_state.user_email = "u2"
    /\ session_state.history # <<>>
    /\ load_user_history(history_files, "u1") # <<>>
    /\ load_user_history(history_files, "u2") = session_state.history

(* C28: a Generate step appends exactly one entry, whose run_id is 1 for   *)
(* an empty history and the largest run_id + 1 otherwise, and leaves the   *)
(* user's history file equal to the history of the session; so the         *)
(* run_ids of a history are 1, 2, ... in append order, in the session and  *)
(* in every file, across logouts and logins.                               *)
Consecutive(history) == \A i \in DOMAIN history : history[i].run_id = i

C28_State ==
    /\ Consecutive(session_state.history)
    /\ \A email \in Emails : Consecutive(load_user_history(history_files, email))
    /\ (session_state.authenticated /\ session_state.history # <<>>) =>
           load_user_history(history_files, session_state.user_email)
               = session_state.history

C28_Step ==
    (/\ session_state.authenticated
     /\ session_state'.authenticated
     /\ session_state'.history # session_state.history) =>
        LET before == session_state.history
            after  == session_state'.history
        IN  /\ Len(after) = Len(before) + 1
            /\ SubSeq(after, 1, Len(before)) = before
            /\ before = <<>> => after[Len(after)].run_id = 1
            /\ before # <<>> =>
                   \E i \in DOMAIN before :
                       /\ \A j \in DOMAIN before : before[j].run_id <= before[i].run_id
                       /\ after[Len(after)].run_id = before[i].run_id + 1
            /\ \A i \in DOMAIN before : before[i].run_id < after[Len(after)].run_id
            /\ load_user_history(history_files', session_state.user_email) = after

C28_RunIdsIncrease == []C28_State /\ [][C28_Step]_vars

C28_Witness ==
    /\ ~rerun
    /\ session_state.authenticated
    /\ Len(session_state.history) = 2
    /\ session_state.history[2].run_id = 2
    /\ session_state.last_explanations # ""
    /\ load_user_history(history_files, session_state.user_email)
           = session_state.history
    /\ \E email \in Emails \ {session_state.user_email} :
           Len(load_user_history(history_files, email)) = 1

====
